---- MODULE Spec2Model ----
(***************************************************************************)
(* goPost: conversion of keploy test fixtures (YAML files holding a curl   *)
(* command) into one Postman collection, output.json.                      *)
(*                                                                         *)
(* The repository holds two builds of the converter, both `package main`:  *)
(*   src/main.go           - the `--request <M> '<url>'` (quoted) dialect  *)
(*   src/unnamed/part_000  - the `--request <M> --url <token>` dialect     *)
(* The variable `variant` says which build runs.  Strings are TLA+ strings *)
(* handled character by character (Len, SubSeq, \o), so the regular        *)
(* expressions and net/url are modelled by what they do on the text.       *)
(***************************************************************************)
EXTENDS Integers, Sequences, FiniteSets, TLC

VARIABLES
    variant,      \* which build runs: MainGo or Part000
    input,        \* the pieces the command under test was written from
    curlCommand,  \* parseCurlCommand's argument
    result,       \* what the first call of parseCurlCommand returned
    rerun,        \* what a second call on the same argument returned
    calls,        \* how many calls of parseCurlCommand have returned
    pc,           \* main's position
    fatal,        \* the fatal error main has met, "none" until it meets one
    entry,        \* number of root entries main's outer loop has taken
    history,      \* the fixture files met so far, in discovery order
    items,        \* collection.Items
    writeCalls,   \* number of os.WriteFile calls made
    output        \* the item list of the document in output.json

parseVars == <<input, curlCommand, result, rerun, calls>>
mainVars == <<pc, fatal, entry, history, items, writeCalls, output>>
vars == <<variant, input, curlCommand, result, rerun, calls,
          pc, fatal, entry, history, items, writeCalls, output>>

MainGo == "main.go"
Part000 == "part_000"
Variants == {MainGo, Part000}

(***************************************************************************)
(* package strings                                                         *)
(***************************************************************************)
At(s, i) == SubSeq(s, i, i)

HasPrefixAt(s, i, p) ==
    /\ i >= 1
    /\ i + Len(p) - 1 <= Len(s)
    /\ SubSeq(s, i, i + Len(p) - 1) = p

HasPrefix(s, p) == HasPrefixAt(s, 1, p)

HasSuffix(s, p) == Len(p) <= Len(s) /\ HasPrefixAt(s, Len(s) - Len(p) + 1, p)

LeastOrZero(S) == IF S = {} THEN 0 ELSE CHOOSE i \in S : \A j \in S : i <= j
GreatestOrZero(S) == IF S = {} THEN 0 ELSE CHOOSE i \in S : \A j \in S : i >= j

\* First index >= from at which p occurs in s; 0 when there is none.
Index(s, p, from) ==
    LeastOrZero({i \in from..(Len(s) - Len(p) + 1) : HasPrefixAt(s, i, p)})

\* Last index at which p occurs in s; 0 when there is none.
LastIndex(s, p) ==
    GreatestOrZero({i \in 1..(Len(s) - Len(p) + 1) : HasPrefixAt(s, i, p)})

Contains(s, p) == Index(s, p, 1) # 0

\* strings.Count, p one character
Count(s, p) == Cardinality({i \in 1..Len(s) : At(s, i) = p})

\* strings.Cut, j the index of sep in s
CutAt(s, sep, j) ==
    IF j = 0
    THEN [before |-> s, after |-> "", found |-> FALSE]
    ELSE [before |-> SubSeq(s, 1, j - 1),
          after |-> SubSeq(s, j + Len(sep), Len(s)),
          found |-> TRUE]

Cut(s, sep) == CutAt(s, sep, Index(s, sep, 1))

\* strings.Replace(s, old, new, -1), old non-empty; j the next index of old
RECURSIVE ReplaceAt(_, _, _, _, _)
ReplaceAt(s, old, new, from, j) ==
    IF j = 0 THEN SubSeq(s, from, Len(s))
    ELSE SubSeq(s, from, j - 1) \o new
         \o ReplaceAt(s, old, new, j + Len(old), Index(s, old, j + Len(old)))

Replace(s, old, new) == ReplaceAt(s, old, new, 1, Index(s, old, 1))

\* strings.TrimLeft(s, "/") and strings.Trim(s, "/")
RECURSIVE TrimLeft(_, _)
TrimLeft(s, c) == IF HasPrefix(s, c) THEN TrimLeft(SubSeq(s, 2, Len(s)), c) ELSE s

RECURSIVE TrimRight(_, _)
TrimRight(s, c) == IF HasSuffix(s, c) THEN TrimRight(SubSeq(s, 1, Len(s) - 1), c) ELSE s

Trim(s, c) == TrimRight(TrimLeft(s, c), c)

\* strings.Split(s, sep): always at least one element, Split("", "/") = [""]
RECURSIVE SplitCut(_, _, _)
SplitCut(s, sep, c) ==
    IF c.found THEN <<c.before>> \o SplitCut(c.after, sep, Cut(c.after, sep))
    ELSE <<s>>

Split(s, sep) == SplitCut(s, sep, Cut(s, sep))

Lower == <<"a", "b", "c", "d", "e", "f", "g", "h", "i", "j", "k", "l", "m",
           "n", "o", "p", "q", "r", "s", "t", "u", "v", "w", "x", "y", "z">>
Upper == <<"A", "B", "C", "D", "E", "F", "G", "H", "I", "J", "K", "L", "M",
           "N", "O", "P", "Q", "R", "S", "T", "U", "V", "W", "X", "Y", "Z">>
Letters == {Lower[i] : i \in DOMAIN Lower} \cup {Upper[i] : i \in DOMAIN Upper}
Digits == {"0", "1", "2", "3", "4", "5", "6", "7", "8", "9"}

\* strings.ToLower on ASCII
LowerChar(c) ==
    IF c \in {Upper[i] : i \in DOMAIN Upper}
    THEN Lower[CHOOSE i \in DOMAIN Upper : Upper[i] = c]
    ELSE c

RECURSIVE ToLower(_)
ToLower(s) ==
    IF s = "" THEN "" ELSE LowerChar(At(s, 1)) \o ToLower(SubSeq(s, 2, Len(s)))

(***************************************************************************)
(* package regexp: the four patterns of parseCurlCommand.  Each operator   *)
(* follows the pattern's leftmost-first match on the characters.  After    *)
(* normalisation the only white space of the commands modelled is " ".     *)
(***************************************************************************)
WordChars == Letters \cup Digits \cup {"_"}    \* \w
SpaceChars == {" "}                            \* \s, on the commands modelled

\* First index >= i whose character is not in class (Len(s)+1 at the end).
RunEnd(s, i, class) ==
    LeastOrZero({j \in i..(Len(s) + 1) : j > Len(s) \/ At(s, j) \notin class})

\* First index >= i whose character is " " (Len(s)+1 at the end): [^ ]+
NonSpaceEnd(s, i) ==
    LeastOrZero({j \in i..(Len(s) + 1) : j > Len(s) \/ At(s, j) = " "})

NoMatch == [ok |-> FALSE]

\* `--request (\w+) '([^']*)'` tried at index i: the method runs from m to
\* e - 1, the URL from e + 2 to q - 1
QuotedMatch(s, i, m, e, q) ==
    IF /\ HasPrefixAt(s, i, "--request ")
       /\ e > m
       /\ HasPrefixAt(s, e, " '")
       /\ q # 0
    THEN [ok |-> TRUE, method |-> SubSeq(s, m, e - 1),
          url |-> SubSeq(s, e + 2, q - 1)]
    ELSE NoMatch

QuotedRun(s, i, m, e) == QuotedMatch(s, i, m, e, Index(s, "'", e + 2))

QuotedAt(s, i) ==
    QuotedRun(s, i, i + Len("--request "), RunEnd(s, i + Len("--request "), WordChars))

\* `--request\s+(\w+)\s+--url\s+([^ ]+)` tried at index i: white space from
\* m0, the method from m to e - 1, white space to u, `--url`, white space from
\* t0, the token from t to f - 1
UrlFlagMatch(s, i, m0, m, e, u, t0, t, f) ==
    IF /\ HasPrefixAt(s, i, "--request")
       /\ m > m0
       /\ e > m
       /\ u > e
       /\ HasPrefixAt(s, u, "--url")
       /\ t > t0
       /\ f > t
    THEN [ok |-> TRUE, method |-> SubSeq(s, m, e - 1), url |-> SubSeq(s, t, f - 1)]
    ELSE NoMatch

UrlFlagToken(s, i, m0, m, e, u, t) ==
    UrlFlagMatch(s, i, m0, m, e, u, u + Len("--url"), t, NonSpaceEnd(s, t))

UrlFlagUrl(s, i, m0, m, e, u) ==
    UrlFlagToken(s, i, m0, m, e, u, RunEnd(s, u + Len("--url"), SpaceChars))

UrlFlagMethod(s, i, m0, m, e) == UrlFlagUrl(s, i, m0, m, e, RunEnd(s, e, SpaceChars))

UrlFlagSpace(s, i, m0, m) == UrlFlagMethod(s, i, m0, m, RunEnd(s, m, WordChars))

UrlFlagAt(s, i) ==
    UrlFlagSpace(s, i, i + Len("--request"), RunEnd(s, i + Len("--request"), SpaceChars))

\* `--header '([^:]+): ([^']*)'` tried at index i: the key runs from k to the
\* first colon at c, the value from c + 2 to the next quote at q
HeaderMatch(s, i, k, c, q) ==
    IF /\ HasPrefixAt(s, i, "--header '")
       /\ c > k
       /\ HasPrefixAt(s, c, ": ")
       /\ q # 0
    THEN [ok |-> TRUE, key |-> SubSeq(s, k, c - 1),
          value |-> SubSeq(s, c + 2, q - 1), end |-> q]
    ELSE NoMatch

HeaderColon(s, i, k, c) == HeaderMatch(s, i, k, c, Index(s, "'", c + 2))

HeaderAt(s, i) ==
    HeaderColon(s, i, i + Len("--header '"), Index(s, ":", i + Len("--header '")))

\* flag `'(\{.*?\})'` tried at index i, flag being "--data" or "--data-raw":
\* "{" is at b, the first "}'" after it at z
DataMatch(s, i, open, b, z) ==
    IF HasPrefixAt(s, i, open) /\ z # 0
    THEN [ok |-> TRUE, raw |-> SubSeq(s, b, z)]
    ELSE NoMatch

DataOpen(s, i, open, b) == DataMatch(s, i, open, b, Index(s, "}'", b + 1))

DataAt(s, i, flag) == DataOpen(s, i, flag \o " '{", i + Len(flag \o " '{") - 1)

\* FindStringSubmatch: the match at the least index where the pattern matches
FindQuoted(s) == QuotedAt(s, LeastOrZero({i \in 1..Len(s) : QuotedAt(s, i).ok}))

FindUrlFlag(s) == UrlFlagAt(s, LeastOrZero({i \in 1..Len(s) : UrlFlagAt(s, i).ok}))

FindData(s, flag) ==
    DataAt(s, LeastOrZero({i \in 1..Len(s) : DataAt(s, i, flag).ok}), flag)

\* reHeader.FindAllStringSubmatch(curlCommand, -1): successive matches, each
\* search starting after the previous match; one {key, value} per match.
RECURSIVE HeadersFrom(_, _)
HeadersFrom(s, h) ==
    IF ~h.ok THEN <<>>
    ELSE <<[key |-> h.key, value |-> h.value]>>
         \o HeadersFrom(s, HeaderAt(s, LeastOrZero(
                {j \in (h.end + 1)..Len(s) : HeaderAt(s, j).ok})))

FindAllHeaders(s) ==
    HeadersFrom(s, HeaderAt(s, LeastOrZero({j \in 1..Len(s) : HeaderAt(s, j).ok})))

(***************************************************************************)
(* package net/url, on the characters the commands modelled use: no "#"    *)
(* fragment is kept, and "@" user info, "[" IPv6 literals, "%" escapes and *)
(* control characters do not occur in them.                                *)
(***************************************************************************)
ParseError == [err |-> TRUE]

\* getScheme
RECURSIVE GetScheme(_, _)
GetScheme(rawURL, i) ==
    IF i > Len(rawURL) THEN [err |-> FALSE, scheme |-> "", rest |-> rawURL]
    ELSE LET c == At(rawURL, i)
         IN IF c \in Letters THEN GetScheme(rawURL, i + 1)
            ELSE IF c \in Digits \cup {"+", "-", "."}
            THEN IF i = 1
                 THEN [err |-> FALSE, scheme |-> "", rest |-> rawURL]
                 ELSE GetScheme(rawURL, i + 1)
            ELSE IF c = ":"
            THEN IF i = 1
                 THEN [err |-> TRUE, scheme |-> "", rest |-> ""]
                 ELSE [err |-> FALSE, scheme |-> SubSeq(rawURL, 1, i - 1),
                       rest |-> SubSeq(rawURL, i + 1, Len(rawURL))]
            ELSE [err |-> FALSE, scheme |-> "", rest |-> rawURL]

\* validOptionalPort
ValidOptionalPort(port) ==
    \/ port = ""
    \/ /\ At(port, 1) = ":"
       /\ \A i \in 2..Len(port) : At(port, i) \in Digits

\* The characters unescape(host, encodeHost) lets through unescaped.
HostChars ==
    Letters \cup Digits \cup
    {"-", "_", ".", "~", "!", "$", "&", "'", "(", ")", "*", "+", ",", ";",
     "=", ":", "[", "]", "<", ">", "\""}

\* parseHost: the port after the last colon is digits, every character is
\* one a host may hold
ValidHost(host) ==
    /\ LastIndex(host, ":") # 0
          => ValidOptionalPort(SubSeq(host, LastIndex(host, ":"), Len(host)))
    /\ \A i \in 1..Len(host) : At(host, i) \in HostChars

URL(scheme, host, path, rawQuery, force) ==
    [err |-> FALSE, Scheme |-> scheme, Opaque |-> "", Host |-> host,
     Path |-> path, RawQuery |-> rawQuery, ForceQuery |-> force,
     OmitHost |-> FALSE]

\* parse, the authority: rest begins with "//", and slash is the index of the
\* first "/" of what follows it
ParseAuthority(scheme, auth, slash, rawQuery, force) ==
    IF ~ValidHost(IF slash = 0 THEN auth ELSE SubSeq(auth, 1, slash - 1))
    THEN ParseError
    ELSE IF slash = 0 THEN URL(scheme, auth, "", rawQuery, force)
    ELSE URL(scheme, SubSeq(auth, 1, slash - 1), SubSeq(auth, slash, Len(auth)),
             rawQuery, force)

\* parse, after the query is split off
ParseRest(scheme, rest, rawQuery, force) ==
    IF ~HasPrefix(rest, "/") /\ scheme # ""
    THEN [URL(scheme, "", "", rawQuery, force) EXCEPT !.Opaque = rest]
    ELSE IF ~HasPrefix(rest, "/") /\ Contains(Cut(rest, "/").before, ":")
    THEN ParseError
    ELSE IF HasPrefix(rest, "//") /\ (scheme # "" \/ ~HasPrefix(rest, "///"))
    THEN ParseAuthority(scheme, SubSeq(rest, 3, Len(rest)),
                        Index(SubSeq(rest, 3, Len(rest)), "/", 1), rawQuery, force)
    ELSE [URL(scheme, "", rest, rawQuery, force)
             EXCEPT !.OmitHost = (scheme # "" /\ HasPrefix(rest, "/"))]

\* parse, after the scheme is split off
ParseQueryCut(scheme, rest) ==
    IF HasSuffix(rest, "?") /\ Count(rest, "?") = 1
    THEN ParseRest(scheme, SubSeq(rest, 1, Len(rest) - 1), "", TRUE)
    ELSE ParseRest(scheme, Cut(rest, "?").before, Cut(rest, "?").after, FALSE)

ParseScheme(sch) ==
    IF sch.err THEN ParseError ELSE ParseQueryCut(ToLower(sch.scheme), sch.rest)

\* url.Parse
ParseURL(rawURL) == ParseScheme(GetScheme(Cut(rawURL, "#").before, 1))

\* splitHostPort, behind (*URL).Hostname and (*URL).Port
SplitAt(hostPort, colon) ==
    IF colon # 0 /\ ValidOptionalPort(SubSeq(hostPort, colon, Len(hostPort)))
    THEN [host |-> SubSeq(hostPort, 1, colon - 1),
          port |-> SubSeq(hostPort, colon + 1, Len(hostPort))]
    ELSE [host |-> hostPort, port |-> ""]

SplitHostPort(hostPort) == SplitAt(hostPort, LastIndex(hostPort, ":"))

Hostname(u) == SplitHostPort(u.Host).host
Port(u) == SplitHostPort(u.Host).port

\* (*URL).EscapedPath: of the characters modelled only " " is escaped
EscapedPath(u) == Replace(u.Path, " ", "%20")

\* (*URL).String, p the escaped path
URLStringOf(u, p) ==
    (IF u.Scheme # "" THEN u.Scheme \o ":" ELSE "")
    \o (IF u.Opaque # "" THEN u.Opaque
        ELSE (IF (u.Scheme # "" \/ u.Host # "") /\ ~(u.OmitHost /\ u.Host = "")
              THEN (IF u.Host # "" \/ u.Path # "" THEN "//" ELSE "") \o u.Host
              ELSE "")
             \o (IF p # "" /\ ~HasPrefix(p, "/") /\ u.Host # "" THEN "/" ELSE "")
             \o (IF u.Scheme = "" /\ u.Host = "" /\ Contains(Cut(p, "/").before, ":")
                 THEN "./" ELSE "")
             \o p)
    \o (IF u.ForceQuery \/ u.RawQuery # "" THEN "?" \o u.RawQuery ELSE "")

URLString(u) == URLStringOf(u, EscapedPath(u))

\* QueryUnescape: "+" is a space
QueryUnescape(s) == Replace(s, "+", " ")

\* parseQuery: the (key, value) pairs of a raw query in their order in the
\* text; a pair holding ";" and an empty pair are dropped
RECURSIVE QueryPairsCut(_)
QueryPairsCut(c) ==
    (IF Contains(c.before, ";") \/ c.before = "" THEN <<>>
     ELSE <<[key |-> QueryUnescape(Cut(c.before, "=").before),
             value |-> QueryUnescape(Cut(c.before, "=").after)]>>)
    \o (IF c.after = "" THEN <<>> ELSE QueryPairsCut(Cut(c.after, "&")))

QueryPairs(query) == IF query = "" THEN <<>> ELSE QueryPairsCut(Cut(query, "&"))

ValuesOf(sel) == [i \in DOMAIN sel |-> sel[i].value]

\* url.Values, a map from each key to its values in order
Values(pairs) ==
    [k \in {pairs[i].key : i \in DOMAIN pairs} |->
        ValuesOf(SelectSeq(pairs, LAMBDA p : p.key = k))]

\* (*URL).Query
Query(u) == Values(QueryPairs(u.RawQuery))

(***************************************************************************)
(* parseCurlCommand                                                        *)
(***************************************************************************)
Nil == [nil |-> TRUE]        \* part_000's `return nil`
Panic == [panic |-> TRUE]    \* a nil pointer dereference: the process dies

IsRecord(r) == r # Nil /\ r # Panic

Placeholder == "Generated from Curl"

\* lines 20-21 of both builds
Normalize(cmd) == Replace(Replace(cmd, "\\\n", " "), "\n", " ")

MethodAndUrl(m) ==
    IF m.ok THEN [method |-> m.method, url |-> m.url]
    ELSE [method |-> "GET", url |-> ""]

\* method, extractedUrl: src/main.go:27-32
MethodAndUrlMainGo(cmd) == MethodAndUrl(FindQuoted(cmd))

\* method, extractedUrl: src/unnamed/part_000:30-35
MethodAndUrlPart000(cmd) == MethodAndUrl(FindUrlFlag(cmd))

\* the default scheme: `if !strings.Contains(extractedUrl, "://")`
WithScheme(extractedUrl) ==
    IF ~Contains(extractedUrl, "://") THEN "http://" \o extractedUrl
    ELSE extractedUrl

\* the "url" object of the record, but for its query
UrlFields(parsedUrl) ==
    [raw |-> URLString(parsedUrl),
     protocol |-> parsedUrl.Scheme,
     host |-> <<Hostname(parsedUrl)>>,
     port |-> Port(parsedUrl),
     path |-> <<TrimLeft(parsedUrl.Path, "/")>>]

\* The orders in which `range` may walk a map with these keys.
KeyOrders(keys) ==
    {o \in [1..Cardinality(keys) -> keys] :
        \A i, j \in 1..Cardinality(keys) : i # j => o[i] # o[j]}

\* src/main.go:39-48: one entry per value, the keys in the order the map walk
\* gives them, each key's values in their order
RECURSIVE QueryList(_, _)
QueryList(values, order) ==
    IF order = <<>> THEN <<>>
    ELSE [i \in DOMAIN values[Head(order)] |->
            [key |-> Head(order), value |-> values[Head(order)][i],
             disabled |-> FALSE]]
         \o QueryList(values, Tail(order))

DataBody(m) ==
    IF m.ok THEN [mode |-> "raw", raw |-> m.raw] ELSE [mode |-> "none", raw |-> ""]

\* src/main.go:58-64
BodyMainGo(cmd) == DataBody(FindData(cmd, "--data-raw"))

\* src/unnamed/part_000:57-64 and 82-85: --data first, else --data-raw; the
\* mode is the literal "raw"
BodyPart000(cmd) ==
    [mode |-> "raw",
     raw |-> IF FindData(cmd, "--data").ok THEN FindData(cmd, "--data").raw
             ELSE DataBody(FindData(cmd, "--data-raw")).raw]

\* src/unnamed/part_000:67-71
LastSegment(pathSegments) ==
    IF Len(pathSegments) > 0 THEN pathSegments[Len(pathSegments)] ELSE Placeholder

NamePart000(parsedUrl) == LastSegment(Split(Trim(parsedUrl.Path, "/"), "/"))

Record(name, method, headers, body, url) ==
    [name |-> name,
     protocolProfileBehavior |-> [disableBodyPruning |-> TRUE],
     request |-> [method |-> method, header |-> headers, body |-> body,
                  url |-> url],
     response |-> <<>>]

\* src/main.go:38-89.  url.Parse's error is dropped (line 38), so a rejected
\* URL leaves parsedUrl nil and parsedUrl.Query() (line 40) dereferences it.
BuildMainGo(cmd, method, parsedUrl) ==
    IF parsedUrl.err THEN {Panic}
    ELSE {Record(Placeholder, method, FindAllHeaders(cmd), BodyMainGo(cmd),
                 UrlFields(parsedUrl) @@ [query |-> QueryList(Query(parsedUrl), o)]) :
             o \in KeyOrders(DOMAIN Query(parsedUrl))}

ResolveMainGo(cmd, mu) == BuildMainGo(cmd, mu.method, ParseURL(WithScheme(mu.url)))

\* src/main.go:18-89
ParseMainGo(curlCommand0) ==
    ResolveMainGo(Normalize(curlCommand0), MethodAndUrlMainGo(Normalize(curlCommand0)))

\* src/unnamed/part_000:41-97.  The query is the url.Values map itself.
BuildPart000(cmd, method, parsedUrl) ==
    IF parsedUrl.err THEN {Nil}
    ELSE IF Hostname(parsedUrl) = "" THEN {Nil}
    ELSE {Record(NamePart000(parsedUrl), method, FindAllHeaders(cmd), BodyPart000(cmd),
                 UrlFields(parsedUrl) @@ [query |-> Query(parsedUrl)])}

ResolvePart000(cmd, mu) == BuildPart000(cmd, mu.method, ParseURL(WithScheme(mu.url)))

\* src/unnamed/part_000:18-97
ParsePart000(curlCommand0) ==
    ResolvePart000(Normalize(curlCommand0), MethodAndUrlPart000(Normalize(curlCommand0)))

\* What a call of parseCurlCommand may return in build v.
parseCurlCommand(v, cmd) == IF v = MainGo THEN ParseMainGo(cmd) ELSE ParsePart000(cmd)

(***************************************************************************)
(* The commands parseCurlCommand is run on.  A command is written from     *)
(* pieces the way keploy's generator writes it: `curl`, the method and URL *)
(* in one of the two dialects (or neither), header flags, a body flag, the *)
(* pieces joined by a space or by a backslash-newline continuation.        *)
(***************************************************************************)
MaxHeaders == 2     \* header flags per command

Methods == {"GET", "POST"}

Tokens ==
    {"api.example.com/users",           \* no scheme
     "http://a.io",                     \* no path
     "https://a.io:8080/v1/items/",     \* port, two segments, trailing slash
     "a.io/r?to=http://b.io",           \* no scheme; "://" inside the query
     "a.io/s?y=2&x=1&y=3",              \* two query keys, one repeated
     "a.io:8x/p"}                       \* a port url.Parse rejects

\* wf: the flag has the shape --header 'K: V'
HeaderPieces ==
    {[text |-> "--header 'Authorization: Bearer xyz'", wf |-> TRUE,
      key |-> "Authorization", value |-> "Bearer xyz"],
     [text |-> "--header 'X-Id: a:b'", wf |-> TRUE,
      key |-> "X-Id", value |-> "a:b"],
     [text |-> "--header 'Accept:*/*'", wf |-> FALSE,   \* no space after the colon
      key |-> "", value |-> ""],
     [text |-> "--header 'X-Empty;'", wf |-> FALSE,     \* curl's empty header
      key |-> "", value |-> ""]}

\* object: the flag has the shape --data '{...}' or --data-raw '{...}'
BodyPieces ==
    {[text |-> "", object |-> FALSE, raw |-> ""],
     [text |-> "--data '{\"a\":1}'", object |-> TRUE, raw |-> "{\"a\":1}"],
     [text |-> "--data-raw '{\"a\":{\"b\":2}}'", object |-> TRUE,
      raw |-> "{\"a\":{\"b\":2}}"],
     [text |-> "--data 'x=1'", object |-> FALSE, raw |-> ""]}

\* a space, a backslash-newline continuation, a bare newline
Separators == {" ", " \\\n  ", "\n"}

NoDialect == "none"
UrlDialect == "url"          \* --request <M> --url <token>
QuotedDialect == "quoted"    \* --request <M> '<url>'

HeaderLists == UNION {[1..n -> HeaderPieces] : n \in 0..MaxHeaders}

Inputs ==
    {[dialect |-> d, method |-> m, token |-> t, headers |-> h, body |-> b, sep |-> sp] :
        d \in {UrlDialect, QuotedDialect}, m \in Methods, t \in Tokens,
        h \in HeaderLists, b \in BodyPieces, sp \in Separators}
    \cup
    {[dialect |-> QuotedDialect, method |-> m, token |-> "", headers |-> h,
      body |-> b, sep |-> sp] :
        m \in Methods, h \in HeaderLists, b \in BodyPieces, sp \in Separators}
    \cup
    {[dialect |-> NoDialect, method |-> "GET", token |-> "", headers |-> h,
      body |-> b, sep |-> sp] :
        h \in HeaderLists, b \in BodyPieces, sp \in Separators}

RECURSIVE RenderHeaders(_, _)
RenderHeaders(hs, sep) ==
    IF hs = <<>> THEN ""
    ELSE sep \o Head(hs).text \o RenderHeaders(Tail(hs), sep)

\* The text of the command written from the pieces of in.
Render(in) ==
    "curl"
    \o (IF in.dialect = UrlDialect
        THEN in.sep \o "--request " \o in.method \o in.sep \o "--url " \o in.token
        ELSE IF in.dialect = QuotedDialect
        THEN in.sep \o "--request " \o in.method \o " '" \o in.token \o "'"
        ELSE "")
    \o RenderHeaders(in.headers, in.sep)
    \o (IF in.body.text = "" THEN "" ELSE in.sep \o in.body.text)

NotCalled == [pending |-> TRUE]
NoInput == [dialect |-> NoDialect, method |-> "GET", token |-> "",
            headers |-> <<>>, body |-> [text |-> "", object |-> FALSE, raw |-> ""],
            sep |-> " "]
NoOutput == [written |-> FALSE, item |-> <<>>]

(***************************************************************************)
(* ParseSpec: parseCurlCommand called twice on one command.                *)
(***************************************************************************)
ParseInit ==
    /\ variant \in Variants
    /\ input \in Inputs
    /\ curlCommand = Render(input)
    /\ result = NotCalled
    /\ rerun = NotCalled
    /\ calls = 0
    /\ pc = "idle"
    /\ fatal = "none"
    /\ entry = 0
    /\ history = <<>>
    /\ items = <<>>
    /\ writeCalls = 0
    /\ output = NoOutput

Call ==
    /\ calls = 0
    /\ \E r \in parseCurlCommand(variant, curlCommand) : result' = r
    /\ calls' = 1
    /\ UNCHANGED <<variant, input, curlCommand, rerun>>
    /\ UNCHANGED mainVars

CallAgain ==
    /\ calls = 1
    /\ \E r \in parseCurlCommand(variant, curlCommand) : rerun' = r
    /\ calls' = 2
    /\ UNCHANGED <<variant, input, curlCommand, result>>
    /\ UNCHANGED mainVars

ParseNext == Call \/ CallAgain

ParseSpec == ParseInit /\ [][ParseNext]_vars

(***************************************************************************)
(* Spec: main.  What the file system holds is read as main reaches it: the *)
(* next root entry and the next file of a tests directory are drawn when   *)
(* the loops take them.                                                    *)
(***************************************************************************)
MaxEntries == 2      \* entries of the keploy directory
MaxFixtures == 3     \* files met in the tests directories of one run

FixtureCommands ==
    {"curl --request GET \\\n  --url api.example.com/users \\\n  --header 'Authorization: Bearer xyz'",
     "curl --request POST 'http://a.io/items' --data-raw '{\"a\":1}'",
     "curl --header 'X: Y'",
     "curl --request GET --url a.io:8x/p",
     "curl --request GET 'a.io:8x/p'"}

\* A file of a tests directory: not a .yaml file, unreadable, not YAML, YAML
\* without a string `curl` field, or YAML holding a curl command.
Fixtures ==
    {[kind |-> k, curl |-> ""] : k \in {"other-ext", "unreadable", "bad-yaml", "no-curl"}}
    \cup {[kind |-> "curl", curl |-> c] : c \in FixtureCommands}

\* An entry of the keploy directory: its name lacks "test-set", it has no
\* tests subdirectory, its tests subdirectory cannot be read, or it can.
EntryKinds == {"other-name", "no-tests", "unreadable-tests", "tests"}

Init ==
    /\ variant \in Variants
    /\ input = NoInput
    /\ curlCommand = ""
    /\ result = NotCalled
    /\ rerun = NotCalled
    /\ calls = 0
    /\ pc = "getwd"
    /\ fatal = "none"
    /\ entry = 0
    /\ history = <<>>
    /\ items = <<>>
    /\ writeCalls = 0
    /\ output = NoOutput

\* os.Getwd fails: print, return
Getwd ==
    /\ pc = "getwd"
    /\ \/ pc' = "stat" /\ UNCHANGED fatal
       \/ pc' = "done" /\ fatal' = "getwd"
    /\ UNCHANGED <<variant, entry, history, items, writeCalls, output>>
    /\ UNCHANGED parseVars

\* os.Stat(keployDir) says the directory does not exist: print, return
StatRoot ==
    /\ pc = "stat"
    /\ \/ pc' = "open" /\ UNCHANGED fatal
       \/ pc' = "done" /\ fatal' = "stat"
    /\ UNCHANGED <<variant, entry, history, items, writeCalls, output>>
    /\ UNCHANGED parseVars

\* ReadDir(keployDir, ...), that is os.OpenFile, fails: print, return
OpenRoot ==
    /\ pc = "open"
    /\ \/ pc' = "readdir" /\ UNCHANGED fatal
       \/ pc' = "done" /\ fatal' = "open"
    /\ UNCHANGED <<variant, entry, history, items, writeCalls, output>>
    /\ UNCHANGED parseVars

\* dir.ReadDir(0) fails: print, return
EnumRoot ==
    /\ pc = "readdir"
    /\ \/ pc' = "range" /\ UNCHANGED fatal
       \/ pc' = "done" /\ fatal' = "readdir"
    /\ UNCHANGED <<variant, entry, history, items, writeCalls, output>>
    /\ UNCHANGED parseVars

\* `for _, v := range files`: the loop ends, or takes the next entry
RangeFiles ==
    /\ pc = "range"
    /\ \/ pc' = "marshal" /\ UNCHANGED entry
       \/ /\ entry < MaxEntries
          /\ entry' = entry + 1
          /\ \E e \in EntryKinds : pc' = IF e = "tests" THEN "tests" ELSE "range"
    /\ UNCHANGED <<variant, fatal, history, items, writeCalls, output>>
    /\ UNCHANGED parseVars

\* `for _, testFile := range testFiles`: the loop ends, or takes the next
\* file; a curl string is parsed and what parseCurlCommand returns appended
RangeTestFiles ==
    /\ pc = "tests"
    /\ \/ pc' = "range" /\ UNCHANGED <<history, items>>
       \/ /\ Len(history) < MaxFixtures
          /\ \E f \in Fixtures :
                /\ history' = Append(history, f)
                /\ IF f.kind = "curl"
                   THEN \E r \in parseCurlCommand(variant, f.curl) :
                           IF r = Panic
                           THEN pc' = "panicked" /\ UNCHANGED items
                           ELSE pc' = "tests" /\ items' = Append(items, r)
                   ELSE pc' = "tests" /\ UNCHANGED items
    /\ UNCHANGED <<variant, fatal, entry, writeCalls, output>>
    /\ UNCHANGED parseVars

\* The slip the return of line 182 / 190 guards against: the error is printed
\* and main goes on to write.
MarshalWithoutReturn ==
    /\ pc = "marshal"
    /\ \/ pc' = "write" /\ UNCHANGED fatal
       \/ pc' = "write" /\ fatal' = "marshal"
    /\ UNCHANGED <<variant, entry, history, items, writeCalls, output>>
    /\ UNCHANGED parseVars

\* json.MarshalIndent(collection, ...) fails: print, return
Marshal ==
    /\ pc = "marshal"
    /\ \/ pc' = "write" /\ UNCHANGED fatal
       \/ pc' = "done" /\ fatal' = "marshal"
    /\ UNCHANGED <<variant, entry, history, items, writeCalls, output>>
    /\ UNCHANGED parseVars

\* os.WriteFile("output.json", ...): the one call; on an error main prints
\* and returns
WriteFile ==
    /\ pc = "write"
    /\ writeCalls' = writeCalls + 1
    /\ \/ output' = [written |-> TRUE, item |-> items]
       \/ UNCHANGED output
    /\ pc' = "done"
    /\ UNCHANGED <<variant, fatal, entry, history, items>>
    /\ UNCHANGED parseVars

Next ==
    \/ Getwd
    \/ StatRoot
    \/ OpenRoot
    \/ EnumRoot
    \/ RangeFiles
    \/ RangeTestFiles
    \/ Marshal
    \/ WriteFile

Spec == Init /\ [][Next]_vars

(***************************************************************************)
(* What the claims speak of                                                *)
(***************************************************************************)
\* The URL a build resolves from a command: its own pattern's token, with the
\* default scheme, through url.Parse.
ResolvedUrl(v, cmd) ==
    ParseURL(WithScheme(IF v = MainGo THEN MethodAndUrlMainGo(Normalize(cmd)).url
                        ELSE MethodAndUrlPart000(Normalize(cmd)).url))

\* The command's URL parsed, to a URL with a non-empty hostname.
HasHost(v, cmd) == ~ResolvedUrl(v, cmd).err /\ Hostname(ResolvedUrl(v, cmd)) # ""

\* token begins with scheme://
HasSchemePrefix(token) ==
    /\ Index(token, "://", 1) > 1
    /\ At(token, 1) \in Letters
    /\ \A i \in 1..(Index(token, "://", 1) - 1) :
          At(token, i) \in Letters \cup Digits \cup {"+", "-", "."}

\* The resolver of the specification: http:// before a token with no
\* scheme:// prefix, then url.Parse.
SpecResolve(token) ==
    ParseURL(IF HasSchemePrefix(token) THEN token ELSE "http://" \o token)

Resolvable(token) == ~SpecResolve(token).err /\ Hostname(SpecResolve(token)) # ""

\* The non-empty segments of a path, in order.
Segments(path) == SelectSeq(Split(path, "/"), LAMBDA seg : seg # "")

\* The (key, value) pairs of the well-formed header flags a command was
\* written from, in order.
WellFormedHeaders(in) ==
    LET wf == SelectSeq(in.headers, LAMBDA h : h.wf)
    IN [i \in DOMAIN wf |-> [key |-> wf[i].key, value |-> wf[i].value]]

\* The fixtures of the run whose command has a URL with a hostname.
ValidFixtures == SelectSeq(history, LAMBDA f : f.kind = "curl" /\ HasHost(variant, f.curl))

Returned == calls >= 1 /\ IsRecord(result)

\* C1: the written item list holds exactly one record per fixture whose curl
\* string parsed to a URL with a non-empty hostname, in discovery order, and
\* no null entry and no record with an empty host.
C1_OneEntryPerValidFixture ==
    output.written =>
        /\ Len(output.item) = Len(ValidFixtures)
        /\ \A i \in DOMAIN output.item :
              /\ IsRecord(output.item[i])
              /\ output.item[i].request.url.host # <<"">>
              /\ output.item[i] \in parseCurlCommand(variant, ValidFixtures[i].curl)

\* C2: no failure met while converting one fixture ends the run: main never
\* dies inside the loop over the fixtures.
C2_FixtureFailureNeverHalts == pc # "panicked"

\* C3: after a fatal error (working directory, missing root, open, enumerate,
\* serialize) output.json is never written; it is written only without one,
\* by one call of os.WriteFile, made after the loops over the fixtures, with
\* the items collected, and no fixture is processed after it.
C3_FatalErrorWritesNothing ==
    /\ [](fatal # "none" => writeCalls = 0 /\ ~output.written)
    /\ [](writeCalls <= 1)
    /\ [](output.written => writeCalls = 1 /\ fatal = "none" /\ output.item = items)
    /\ [][writeCalls' # writeCalls => pc = "write" /\ fatal = "none"]_vars
    /\ [][writeCalls >= 1 => history' = history /\ items' = items]_vars

\* C3's case: serialization failed after fixtures were processed, and nothing
\* was written.
C3_Witness ==
    /\ fatal = "marshal"
    /\ pc = "done"
    /\ Len(items) > 0
    /\ writeCalls = 0

\* C4: a command in either dialect gives a record with the command's method
\* and the URL resolved from its token (here: a token that resolves, and that
\* holds "://" only as its scheme prefix); the method is the default GET with
\* an empty URL only when the command has neither shape.
C4_BothDialectsExtracted ==
    calls >= 1 =>
        /\ (/\ input.dialect # NoDialect
            /\ Resolvable(input.token)
            /\ HasSchemePrefix(input.token) = Contains(input.token, "://")) =>
              /\ IsRecord(result)
              /\ result.request.method = input.method
              /\ result.request.url.protocol = SpecResolve(input.token).Scheme
              /\ result.request.url.host = <<Hostname(SpecResolve(input.token))>>
        /\ (input.dialect = NoDialect /\ IsRecord(result)) =>
              /\ result.request.method = "GET"
              /\ result.request.url.host = <<"">>

\* C5: a record's body is mode none with empty content when the command has
\* neither --data '{...}' nor --data-raw '{...}', and mode raw with exactly the
\* braces' span when it has one.
C5_BodyModeFollowsDataFlag ==
    Returned =>
        result.request.body =
            IF input.body.object THEN [mode |-> "raw", raw |-> input.body.raw]
            ELSE [mode |-> "none", raw |-> ""]

\* C6: a record's header list is the (key, value) pairs of the command's
\* well-formed --header 'K: V' flags, in order, duplicates kept; it is empty
\* when the command has no --header flag.
C6_HeadersAreWellFormedFlags ==
    Returned => result.request.header = WellFormedHeaders(input)

\* C7: a token the build extracts that has a host and no scheme:// prefix,
\* "://" later in it or not, gives a record with protocol http and the
\* token's host.
C7_NoSchemePrefixMeansHttp ==
    (/\ calls >= 1
     /\ input.dialect = (IF variant = MainGo THEN QuotedDialect ELSE UrlDialect)
     /\ ~HasSchemePrefix(input.token)
     /\ Resolvable(input.token)) =>
        /\ IsRecord(result)
        /\ result.request.url.protocol = "http"
        /\ result.request.url.host = <<Hostname(SpecResolve(input.token))>>
        /\ result.request.url.host # <<"">>

\* C8: a record's name is the last non-empty segment of the resolved URL's
\* path, and the placeholder when the path has none.
C8_NameIsLastSegment ==
    Returned =>
        LET segs == Segments(ResolvedUrl(variant, curlCommand).Path)
        IN result.name = IF segs = <<>> THEN Placeholder ELSE segs[Len(segs)]

\* C9: a record's url.path is the list of the path's segments, one element
\* per segment, and the empty list for an empty path.
C9_PathIsSegmentList ==
    Returned =>
        /\ result.request.url.path = Segments(ResolvedUrl(variant, curlCommand).Path)
        /\ \A i \in DOMAIN result.request.url.path :
              ~Contains(result.request.url.path[i], "/")

\* C10: two calls of parseCurlCommand on one command return the same record,
\* the entries of url.query in the same order.
C10_SameCommandSameRecord == calls = 2 => rerun = result

====
